---- MODULE Spec2Model ----
(***************************************************************************)
(* Model of scripts/convert.py: the STL -> STEP batch converter.           *)
(*                                                                         *)
(* One behaviour is one invocation of the script.  The geometry kernel     *)
(* (FreeCAD, Part, Mesh, MeshPart, Import) is an external collaborator:    *)
(* every call into it may raise, may print to sys.stdout, and returns a    *)
(* value chosen by the kernel.  The script's own control flow, its result  *)
(* dictionary, the stream redirection and the exit paths are translated    *)
(* statement by statement.                                                 *)
(***************************************************************************)
EXTENDS Integers, Sequences, FiniteSets, TLC

\* ---------------------------------------------------------------- bounds
MaxPts == 4
MaxFacets == 2
MaxSize == 2
MaxNoise == 1
MaxArgs == 3

\* ------------------------------------------------------ program constants
NumKernelModules == 5
TrianglePoints == 3
ArgparseErrorStatus == 2
UncaughtStatus == 1

VARIABLES
  pc,           \* position of the script
  args,         \* the command line as argparse sees it
  inputExists,  \* os.path.exists(input_path)
  fileMesh,     \* the mesh stored in the input file
  outPrior,     \* the output path before the invocation
  outFile,      \* the output path now
  sysStdout,    \* what sys.stdout is bound to: "real" or "fake"
  sysStderr,    \* what sys.stderr is bound to
  restores,     \* number of calls of mute.restore()
  buffered,     \* written to the real stdout object, not yet flushed
  realOut,      \* what has reached the real standard output
  fake,         \* contents of the io.StringIO sink
  loadedMods,   \* number of kernel modules imported so far
  result,       \* the result dictionary of convert
  mesh,         \* the Mesh.Mesh object
  repairs,      \* local list of repair_mesh
  shape,        \* Part.Shape built from the mesh
  final,        \* local 'final' of convert
  mergeIn,      \* the shape handed to merge_planar_faces
  objShape,     \* obj.Shape of the document object
  exportedShape,\* the shape Import.export serialised
  solidRaised,  \* Part.makeSolid raised
  mergeRaised,  \* shape.removeSplitter raised
  obs,          \* what repair_mesh observed on the mesh
  executed,     \* the stages entered so far, in order
  exitCode,     \* status handed to the interpreter shutdown
  exitStatus    \* process exit status, -1 while running

environment == <<args, inputExists, fileMesh, outPrior>>
geometry == <<mesh, repairs, shape, final, mergeIn, objShape, exportedShape,
              solidRaised, mergeRaised, obs>>
vars == <<pc, args, inputExists, fileMesh, outPrior, outFile, sysStdout,
          sysStderr, restores, buffered, realOut, fake, loadedMods, result,
          mesh, repairs, shape, final, mergeIn, objShape, exportedShape,
          solidRaised, mergeRaised, obs, executed, exitCode, exitStatus>>

\* ---------------------------------------------------------------- helpers
Put(r, k, v) == [x \in (DOMAIN r) \cup {k} |-> IF x = k THEN v ELSE r[x]]

Has(r, k) == k \in DOMAIN r

Range(s) == {s[i] : i \in 1..Len(s)}

NoMesh == [loaded |-> FALSE, pts |-> 0, facets |-> 0, si |-> FALSE, nm |-> FALSE]

NoShape == [made |-> FALSE, solid |-> FALSE, merged |-> FALSE]

NoFile == [exists |-> FALSE, size |-> 0, fresh |-> FALSE]

NoObs == [ptsRemoved |-> 0, facetsRemoved |-> 0, si3 |-> FALSE, si3after |-> FALSE,
          nm5 |-> FALSE, nm5after |-> FALSE]

JsonItem(r) == [kind |-> "json", rec |-> r]

TextItem == [kind |-> "text", rec |-> [success |-> FALSE]]

\* get_mesh_info: the snapshot of the mesh attributes
MeshInfo(m) == [points |-> m.pts, facets |-> m.facets,
                has_non_manifolds |-> m.nm, has_self_intersections |-> m.si]

\* the dictionary convert starts from
BaseResult == [success |-> FALSE, input |-> "input_path", output |-> "output_path",
               tolerance |-> "tolerance"]

\* the record the import handler prints
ImportFailureRecord == [success |-> FALSE, error |-> "FreeCAD import failed",
                        stage |-> "import"]

\* one entry of the repairs list
Entry(p, t, n) == [pass |-> p, text |-> t, n |-> n]

\* the kernel may print one line during a call, while the sink has room
NoiseChoices == IF Len(fake) + Len(buffered) + Len(realOut) < MaxNoise
                THEN BOOLEAN ELSE {FALSE}

\* a kernel line goes to whatever sys.stdout is bound to
FakeAfter(noisy) == IF noisy /\ sysStdout = "fake" THEN Append(fake, "kernel") ELSE fake

BufAfter(noisy) == IF noisy /\ sysStdout = "real" THEN Append(buffered, TextItem) ELSE buffered

\* the script goes on: streams keep their binding
GoOn(noisy, next) ==
  /\ pc' = next
  /\ fake' = FakeAfter(noisy)
  /\ buffered' = BufAfter(noisy)
  /\ UNCHANGED <<sysStdout, sysStderr, restores, realOut, exitCode, exitStatus>>

\* an exception leaves the current frame
Raise(noisy) == GoOn(noisy, "raised")

\* clean_exit(result): restore, print, flush, os._exit(0)
CleanExit(r, noisy) ==
  /\ result' = r
  /\ sysStdout' = "real"
  /\ sysStderr' = "real"
  /\ restores' = restores + 1
  /\ fake' = FakeAfter(noisy)
  /\ realOut' = realOut \o BufAfter(noisy) \o <<JsonItem(r)>>
  /\ buffered' = <<>>
  /\ pc' = "exited"
  /\ exitStatus' = 0
  /\ UNCHANGED exitCode

\* ------------------------------------------------------------------- Init
\* what mesh.read can load: no facets and no points, or at least one facet
\* and the three points of a triangle
Meshes == {m \in [loaded : {TRUE}, pts : 0..MaxPts, facets : 0..MaxFacets,
                  si : BOOLEAN, nm : BOOLEAN] :
             IF m.facets = 0 THEN m.pts = 0 /\ ~m.si /\ ~m.nm
                             ELSE m.pts >= TrianglePoints}

PriorFiles == {NoFile} \cup [exists : {TRUE}, size : 1..MaxSize, fresh : {FALSE}]

ArgLists == [npos : 0..MaxArgs, tolOk : BOOLEAN, repair : BOOLEAN,
             info : BOOLEAN, help : BOOLEAN]

Init ==
  /\ pc = "suppress"
  /\ args \in ArgLists
  /\ inputExists \in BOOLEAN
  /\ fileMesh \in Meshes
  /\ (~inputExists => fileMesh = [NoMesh EXCEPT !.loaded = TRUE])
  /\ outPrior \in PriorFiles
  /\ outFile = outPrior
  /\ sysStdout = "real"
  /\ sysStderr = "real"
  /\ restores = 0
  /\ buffered = <<>>
  /\ realOut = <<>>
  /\ fake = <<>>
  /\ loadedMods = 0
  /\ result = BaseResult
  /\ mesh = NoMesh
  /\ repairs = <<>>
  /\ shape = NoShape
  /\ final = NoShape
  /\ mergeIn = NoShape
  /\ objShape = NoShape
  /\ exportedShape = NoShape
  /\ solidRaised = FALSE
  /\ mergeRaised = FALSE
  /\ obs = NoObs
  /\ executed = <<>>
  /\ exitCode = 0
  /\ exitStatus = -1

\* ------------------------------------------------- module level, lines 28-45
\* mute.suppress()
Suppress ==
  /\ pc = "suppress"
  /\ sysStdout' = "fake"
  /\ sysStderr' = "fake"
  /\ pc' = "import"
  /\ UNCHANGED <<environment, outFile, restores, buffered, realOut, fake,
                 loadedMods, result, geometry, executed, exitCode, exitStatus>>

\* try: import FreeCAD, Part, Mesh, MeshPart, Import
ImportKernel ==
  /\ pc = "import"
  /\ \E k \in 0..NumKernelModules, noisy \in NoiseChoices :
       /\ loadedMods' = k
       /\ GoOn(noisy, IF k = NumKernelModules THEN "main" ELSE "import_failed")
  /\ UNCHANGED <<environment, outFile, result, geometry, executed>>

\* except Exception: mute.restore(); print(json.dumps(...)); sys.exit(0)
ImportFailed ==
  /\ pc = "import_failed"
  /\ sysStdout' = "real"
  /\ sysStderr' = "real"
  /\ restores' = restores + 1
  /\ buffered' = Append(buffered, JsonItem(ImportFailureRecord))
  /\ exitCode' = 0
  /\ pc' = "finalize"
  /\ UNCHANGED <<environment, outFile, realOut, fake, loadedMods, result,
                 geometry, executed, exitStatus>>

\* ----------------------------------------------------- main, lines 190-200
\* parser.parse_args(): -h prints the help on sys.stdout and exits 0; a wrong
\* number of positionals or a non-float tolerance prints the usage on
\* sys.stderr and exits 2.  With both on the command line the one that comes
\* first decides.
ParseArgs ==
  /\ pc = "main"
  /\ \/ /\ args.help
        /\ fake' = IF sysStdout = "fake" THEN Append(fake, "help") ELSE fake
        /\ buffered' = IF sysStdout = "real" THEN Append(buffered, TextItem) ELSE buffered
        /\ exitCode' = 0
        /\ pc' = "finalize"
     \/ /\ (args.npos # 2 \/ ~args.tolOk)
        /\ (args.npos # 2 /\ args.tolOk) => ~args.help
        /\ fake' = IF sysStderr = "fake" THEN Append(fake, "usage") ELSE fake
        /\ exitCode' = ArgparseErrorStatus
        /\ pc' = "finalize"
        /\ UNCHANGED buffered
     \/ /\ ~args.help /\ args.npos = 2 /\ args.tolOk
        /\ pc' = "convert"
        /\ UNCHANGED <<fake, buffered, exitCode>>
  /\ UNCHANGED <<environment, outFile, sysStdout, sysStderr, restores, realOut,
                 loadedMods, result, geometry, executed, exitStatus>>

\* an exception nobody catches: the traceback goes to sys.stderr, status 1
Uncaught ==
  /\ pc = "raised"
  /\ fake' = IF sysStderr = "fake" THEN Append(fake, "traceback") ELSE fake
  /\ exitCode' = UncaughtStatus
  /\ pc' = "finalize"
  /\ UNCHANGED <<environment, outFile, sysStdout, sysStderr, restores, buffered,
                 realOut, loadedMods, result, geometry, executed, exitStatus>>

\* interpreter shutdown after sys.exit or an uncaught exception: the loaded
\* kernel modules are torn down (and may print), the real stdout is flushed
Finalize ==
  /\ pc = "finalize"
  /\ \E noisy \in (IF loadedMods > 0 THEN BOOLEAN ELSE {FALSE}) :
       /\ fake' = FakeAfter(noisy)
       /\ realOut' = realOut \o BufAfter(noisy)
  /\ buffered' = <<>>
  /\ exitStatus' = exitCode
  /\ pc' = "exited"
  /\ UNCHANGED <<environment, outFile, sysStdout, sysStderr, restores,
                 loadedMods, result, geometry, executed, exitCode>>

\* --------------------------------------------------- convert, lines 124-183
\* ConvertStart with a clean_exit that returns instead of ending the process
ConvertStart_FallsThrough ==
  /\ pc = "convert"
  /\ executed' = Append(executed, "convert")
  /\ result' = IF ~inputExists THEN Put(BaseResult, "error", "Input file not found")
                               ELSE BaseResult
  /\ GoOn(FALSE, "read")
  /\ UNCHANGED <<environment, outFile, loadedMods, geometry>>

\* result = {...}; if not os.path.exists(input_path): ... clean_exit(result)
ConvertStart ==
  /\ pc = "convert"
  /\ executed' = Append(executed, "convert")
  /\ IF ~inputExists
       THEN CleanExit(Put(BaseResult, "error", "Input file not found"), FALSE)
       ELSE /\ result' = BaseResult
            /\ GoOn(FALSE, "read")
  /\ UNCHANGED <<environment, outFile, loadedMods, geometry>>

\* mesh = Mesh.Mesh(); mesh.read(input_path); if mesh.CountFacets == 0: ...
ReadMesh ==
  /\ pc = "read"
  /\ executed' = Append(executed, "read")
  /\ \E noisy \in NoiseChoices, raises \in BOOLEAN :
       IF raises
         THEN /\ Raise(noisy)
              /\ UNCHANGED <<mesh, result>>
         ELSE /\ mesh' = fileMesh
              /\ IF fileMesh.facets = 0
                   THEN CleanExit(Put(result, "error", "STL contains no facets"), noisy)
                   ELSE /\ GoOn(noisy, "info")
                        /\ UNCHANGED result
  /\ UNCHANGED <<environment, outFile, loadedMods, repairs, shape, final, mergeIn,
                 objShape, exportedShape, solidRaised, mergeRaised, obs>>

\* InfoBefore where the repair flag overrides --info
InfoBefore_RepairWins ==
  /\ pc = "info"
  /\ executed' = Append(executed, "info")
  /\ \E noisy \in NoiseChoices, raises \in BOOLEAN :
       IF raises
         THEN /\ Raise(noisy)
              /\ UNCHANGED result
         ELSE IF args.info /\ ~args.repair
           THEN CleanExit(Put(Put(result, "mesh_info_before", MeshInfo(mesh)),
                              "success", TRUE), noisy)
           ELSE /\ result' = Put(result, "mesh_info_before", MeshInfo(mesh))
                /\ GoOn(noisy, IF args.repair THEN "rep1" ELSE "newdoc")
  /\ UNCHANGED <<environment, outFile, loadedMods, geometry>>

\* result["mesh_info_before"] = get_mesh_info(mesh); if info_only: ...
InfoBefore ==
  /\ pc = "info"
  /\ executed' = Append(executed, "info")
  /\ \E noisy \in NoiseChoices, raises \in BOOLEAN :
       IF raises
         THEN /\ Raise(noisy)
              /\ UNCHANGED result
         ELSE IF args.info
           THEN CleanExit(Put(Put(result, "mesh_info_before", MeshInfo(mesh)),
                              "success", TRUE), noisy)
           ELSE /\ result' = Put(result, "mesh_info_before", MeshInfo(mesh))
                /\ GoOn(noisy, IF args.repair THEN "rep1" ELSE "newdoc")
  /\ UNCHANGED <<environment, outFile, loadedMods, geometry>>

\* ------------------------------------------------ repair_mesh, lines 77-109
\* pass 1: removeDuplicatedPoints
Rep1 ==
  /\ pc = "rep1"
  /\ executed' = Append(executed, "rep1")
  /\ \E noisy \in NoiseChoices, raises \in BOOLEAN, left \in 0..mesh.pts :
       IF raises
         THEN /\ Raise(noisy)
              /\ UNCHANGED <<mesh, repairs, obs>>
         ELSE /\ mesh' = [mesh EXCEPT !.pts = left]
              /\ obs' = [obs EXCEPT !.ptsRemoved = mesh.pts - left]
              /\ repairs' = IF left < mesh.pts
                              THEN <<Entry(1, "Removed duplicate points", mesh.pts - left)>>
                              ELSE <<>>
              /\ GoOn(noisy, "rep2")
  /\ UNCHANGED <<environment, outFile, loadedMods, result, shape, final, mergeIn,
                 objShape, exportedShape, solidRaised, mergeRaised>>

\* pass 2: removeDuplicatedFacets
Rep2 ==
  /\ pc = "rep2"
  /\ executed' = Append(executed, "rep2")
  /\ \E noisy \in NoiseChoices, raises \in BOOLEAN, left \in 0..mesh.facets :
       IF raises
         THEN /\ Raise(noisy)
              /\ UNCHANGED <<mesh, repairs, obs>>
         ELSE /\ mesh' = [mesh EXCEPT !.facets = left]
              /\ obs' = [obs EXCEPT !.facetsRemoved = mesh.facets - left]
              /\ repairs' = IF left < mesh.facets
                              THEN Append(repairs, Entry(2, "Removed duplicate facets",
                                                         mesh.facets - left))
                              ELSE repairs
              /\ GoOn(noisy, "rep3")
  /\ UNCHANGED <<environment, outFile, loadedMods, result, shape, final, mergeIn,
                 objShape, exportedShape, solidRaised, mergeRaised>>

\* Rep3 that logs the attempt, whether or not the intersections are gone
Rep3_LogsAttempt ==
  /\ pc = "rep3"
  /\ executed' = Append(executed, "rep3")
  /\ \E noisy \in NoiseChoices, raises \in BOOLEAN,
        still \in (IF mesh.si THEN BOOLEAN ELSE {FALSE}) :
       IF raises
         THEN /\ Raise(noisy)
              /\ UNCHANGED <<mesh, repairs, obs>>
         ELSE /\ mesh' = [mesh EXCEPT !.si = still]
              /\ obs' = [obs EXCEPT !.si3 = mesh.si, !.si3after = still]
              /\ repairs' = IF mesh.si
                              THEN Append(repairs, Entry(3, "Fixed self-intersections", 0))
                              ELSE repairs
              /\ GoOn(noisy, "rep4")
  /\ UNCHANGED <<environment, outFile, loadedMods, result, shape, final, mergeIn,
                 objShape, exportedShape, solidRaised, mergeRaised>>

\* pass 3: if hasSelfIntersections: fixSelfIntersections; log if they are gone
Rep3 ==
  /\ pc = "rep3"
  /\ executed' = Append(executed, "rep3")
  /\ \E noisy \in NoiseChoices, raises \in BOOLEAN,
        still \in (IF mesh.si THEN BOOLEAN ELSE {FALSE}) :
       IF raises
         THEN /\ Raise(noisy)
              /\ UNCHANGED <<mesh, repairs, obs>>
         ELSE /\ mesh' = [mesh EXCEPT !.si = still]
              /\ obs' = [obs EXCEPT !.si3 = mesh.si, !.si3after = still]
              /\ repairs' = IF mesh.si /\ ~still
                              THEN Append(repairs, Entry(3, "Fixed self-intersections", 0))
                              ELSE repairs
              /\ GoOn(noisy, "rep4")
  /\ UNCHANGED <<environment, outFile, loadedMods, result, shape, final, mergeIn,
                 objShape, exportedShape, solidRaised, mergeRaised>>

\* pass 4: fixDegenerations(0.0, True), always logged
Rep4 ==
  /\ pc = "rep4"
  /\ executed' = Append(executed, "rep4")
  /\ \E noisy \in NoiseChoices, raises \in BOOLEAN, nonman \in BOOLEAN :
       IF raises
         THEN /\ Raise(noisy)
              /\ UNCHANGED <<mesh, repairs>>
         ELSE /\ mesh' = [mesh EXCEPT !.nm = nonman]
              /\ repairs' = Append(repairs, Entry(4, "Fixed degenerations", 0))
              /\ GoOn(noisy, "rep5")
  /\ UNCHANGED <<environment, outFile, loadedMods, result, shape, final, mergeIn,
                 objShape, exportedShape, solidRaised, mergeRaised, obs>>

\* pass 5: if hasNonManifolds: removeNonManifolds; log if they are gone
Rep5 ==
  /\ pc = "rep5"
  /\ executed' = Append(executed, "rep5")
  /\ \E noisy \in NoiseChoices, raises \in BOOLEAN,
        still \in (IF mesh.nm THEN BOOLEAN ELSE {FALSE}) :
       IF raises
         THEN /\ Raise(noisy)
              /\ UNCHANGED <<mesh, repairs, obs>>
         ELSE /\ mesh' = [mesh EXCEPT !.nm = still]
              /\ obs' = [obs EXCEPT !.nm5 = mesh.nm, !.nm5after = still]
              /\ repairs' = IF mesh.nm /\ ~still
                              THEN Append(repairs, Entry(5, "Removed non-manifolds", 0))
                              ELSE repairs
              /\ GoOn(noisy, "rep6")
  /\ UNCHANGED <<environment, outFile, loadedMods, result, shape, final, mergeIn,
                 objShape, exportedShape, solidRaised, mergeRaised>>

\* pass 6: fillupHoles, always logged
Rep6 ==
  /\ pc = "rep6"
  /\ executed' = Append(executed, "rep6")
  /\ \E noisy \in NoiseChoices, raises \in BOOLEAN :
       IF raises
         THEN /\ Raise(noisy)
              /\ UNCHANGED repairs
         ELSE /\ repairs' = Append(repairs, Entry(6, "Filled holes", 0))
              /\ GoOn(noisy, "rep7")
  /\ UNCHANGED <<environment, outFile, loadedMods, result, mesh, shape, final, mergeIn,
                 objShape, exportedShape, solidRaised, mergeRaised, obs>>

\* pass 7: harmonizeNormals, always logged
Rep7 ==
  /\ pc = "rep7"
  /\ executed' = Append(executed, "rep7")
  /\ \E noisy \in NoiseChoices, raises \in BOOLEAN :
       IF raises
         THEN /\ Raise(noisy)
              /\ UNCHANGED repairs
         ELSE /\ repairs' = Append(repairs, Entry(7, "Harmonized normals", 0))
              /\ GoOn(noisy, "repaired")
  /\ UNCHANGED <<environment, outFile, loadedMods, result, mesh, shape, final, mergeIn,
                 objShape, exportedShape, solidRaised, mergeRaised, obs>>

\* return mesh, repairs; result["repairs"] = repairs;
\* result["mesh_info_after"] = get_mesh_info(mesh)
RepairDone ==
  /\ pc = "repaired"
  /\ executed' = Append(executed, "info_after")
  /\ \E noisy \in NoiseChoices, raises \in BOOLEAN :
       IF raises
         THEN /\ Raise(noisy)
              /\ result' = Put(result, "repairs", repairs)
         ELSE /\ result' = Put(Put(result, "repairs", repairs),
                               "mesh_info_after", MeshInfo(mesh))
              /\ GoOn(noisy, "newdoc")
  /\ UNCHANGED <<environment, outFile, loadedMods, geometry>>

\* ------------------------------------------- reconstruction, lines 154-172
\* doc = FreeCAD.newDocument("Job")
NewDocument ==
  /\ pc = "newdoc"
  /\ executed' = Append(executed, "newdoc")
  /\ \E noisy \in NoiseChoices, raises \in BOOLEAN :
       IF raises THEN Raise(noisy) ELSE GoOn(noisy, "makeshape")
  /\ UNCHANGED <<environment, outFile, loadedMods, result, geometry>>

\* shape = Part.Shape(); shape.makeShapeFromMesh(mesh.Topology, tolerance)
MakeShape ==
  /\ pc = "makeshape"
  /\ executed' = Append(executed, "makeshape")
  /\ \E noisy \in NoiseChoices, raises \in BOOLEAN :
       IF raises
         THEN /\ Raise(noisy)
              /\ UNCHANGED shape
         ELSE /\ shape' = [NoShape EXCEPT !.made = TRUE]
              /\ GoOn(noisy, "solidify")
  /\ UNCHANGED <<environment, outFile, loadedMods, result, mesh, repairs, final,
                 mergeIn, objShape, exportedShape, solidRaised, mergeRaised, obs>>

\* Solidify without the try/except: a makeSolid failure propagates
Solidify_Propagates ==
  /\ pc = "solidify"
  /\ executed' = Append(executed, "solidify")
  /\ \E noisy \in NoiseChoices, raises \in BOOLEAN :
       /\ solidRaised' = raises
       /\ IF raises
            THEN /\ Raise(noisy)
                 /\ UNCHANGED <<final, result>>
            ELSE /\ final' = [shape EXCEPT !.solid = TRUE]
                 /\ result' = Put(result, "is_solid", TRUE)
                 /\ GoOn(noisy, "merge")
  /\ UNCHANGED <<environment, outFile, loadedMods, mesh, repairs, shape, mergeIn,
                 objShape, exportedShape, mergeRaised, obs>>

\* try: solid = Part.makeSolid(shape) ... except Exception: final = shape
Solidify ==
  /\ pc = "solidify"
  /\ executed' = Append(executed, "solidify")
  /\ \E noisy \in NoiseChoices, raises \in BOOLEAN :
       /\ solidRaised' = raises
       /\ final' = IF raises THEN shape ELSE [shape EXCEPT !.solid = TRUE]
       /\ result' = Put(result, "is_solid", ~raises)
       /\ GoOn(noisy, "merge")
  /\ UNCHANGED <<environment, outFile, loadedMods, mesh, repairs, shape, mergeIn,
                 objShape, exportedShape, mergeRaised, obs>>

\* final, merged_ok = merge_planar_faces(final); result["merged_planar_faces"] = merged_ok
MergePlanar ==
  /\ pc = "merge"
  /\ executed' = Append(executed, "merge")
  /\ mergeIn' = final
  /\ \E noisy \in NoiseChoices, raises \in BOOLEAN :
       /\ mergeRaised' = raises
       /\ final' = IF raises THEN final ELSE [final EXCEPT !.merged = TRUE]
       /\ result' = Put(result, "merged_planar_faces", ~raises)
       /\ GoOn(noisy, "addobject")
  /\ UNCHANGED <<environment, outFile, loadedMods, mesh, repairs, shape,
                 objShape, exportedShape, solidRaised, obs>>

\* obj = doc.addObject("Part::Feature", "Mesh"); obj.Shape = final
AddObject ==
  /\ pc = "addobject"
  /\ executed' = Append(executed, "addobject")
  /\ \E noisy \in NoiseChoices, raises \in BOOLEAN :
       IF raises
         THEN /\ Raise(noisy)
              /\ UNCHANGED objShape
         ELSE /\ objShape' = final
              /\ GoOn(noisy, "export")
  /\ UNCHANGED <<environment, outFile, loadedMods, result, mesh, repairs, shape, final,
                 mergeIn, exportedShape, solidRaised, mergeRaised, obs>>

\* ----------------------------------------------------- export, lines 174-183
\* Import.export([obj], output_path): raises, writes the file, or returns
\* without having written anything
Export ==
  /\ pc = "export"
  /\ executed' = Append(executed, "export")
  /\ \E noisy \in NoiseChoices, outcome \in {"raises", "written", "silent"},
        bytes \in 1..MaxSize :
       /\ outcome # "written" => bytes = 1
       /\ IF outcome = "raises"
            THEN /\ Raise(noisy)
                 /\ UNCHANGED <<outFile, exportedShape>>
            ELSE /\ GoOn(noisy, "check")
                 /\ IF outcome = "written"
                      THEN /\ outFile' = [exists |-> TRUE, size |-> bytes, fresh |-> TRUE]
                           /\ exportedShape' = objShape
                      ELSE UNCHANGED <<outFile, exportedShape>>
  /\ UNCHANGED <<environment, loadedMods, result, mesh, repairs, shape, final,
                 mergeIn, objShape, solidRaised, mergeRaised, obs>>

\* if not os.path.exists(output_path): ... ; success, output_size; clean_exit
CheckOutput ==
  /\ pc = "check"
  /\ executed' = Append(executed, "check")
  /\ IF ~outFile.exists
       THEN CleanExit(Put(result, "error", "STEP export failed"), FALSE)
       ELSE CleanExit(Put(Put(result, "success", TRUE), "output_size", outFile.size), FALSE)
  /\ UNCHANGED <<environment, outFile, loadedMods, geometry>>

\* ------------------------------------------------------------ specification
Next ==
  \/ Suppress
  \/ ImportKernel
  \/ ImportFailed
  \/ ParseArgs
  \/ Uncaught
  \/ Finalize
  \/ ConvertStart
  \/ ReadMesh
  \/ InfoBefore
  \/ Rep1
  \/ Rep2
  \/ Rep3
  \/ Rep4
  \/ Rep5
  \/ Rep6
  \/ Rep7
  \/ RepairDone
  \/ NewDocument
  \/ MakeShape
  \/ Solidify
  \/ MergePlanar
  \/ AddObject
  \/ Export
  \/ CheckOutput

Spec == Init /\ [][Next]_vars

\* ------------------------------------------------------------------ claims
ExecutedLast == IF executed = <<>> THEN "none" ELSE executed[Len(executed)]

\* everything handed to the real standard output, flushed or not
Written == realOut \o buffered

\* the process ended having put exactly one JSON record on the real stdout
OneRecord == pc = "exited" /\ Len(realOut) = 1 /\ realOut[1].kind = "json"

Emitted == realOut[1].rec

LaterStages == {"rep1", "rep2", "rep3", "rep4", "rep5", "rep6", "rep7", "info_after",
                "newdoc", "makeshape", "solidify", "merge", "addobject", "export", "check"}

KernelPcs == {"import", "read", "info", "rep1", "rep2", "rep3", "rep4", "rep5", "rep6",
              "rep7", "repaired", "newdoc", "makeshape", "solidify", "merge",
              "addobject", "export"}

PassOrder == <<"rep1", "rep2", "rep3", "rep4", "rep5", "rep6", "rep7">>

IsPass(x) == x \in {"rep1", "rep2", "rep3", "rep4", "rep5", "rep6", "rep7"}

PassesRun == SelectSeq(executed, IsPass)

\* the repairs list, given whether pass 3 and pass 5 contribute an entry
ExpectedRepairs(log3, log5) ==
     (IF obs.ptsRemoved > 0
        THEN <<Entry(1, "Removed duplicate points", obs.ptsRemoved)>> ELSE <<>>)
  \o (IF obs.facetsRemoved > 0
        THEN <<Entry(2, "Removed duplicate facets", obs.facetsRemoved)>> ELSE <<>>)
  \o (IF log3 THEN <<Entry(3, "Fixed self-intersections", 0)>> ELSE <<>>)
  \o <<Entry(4, "Fixed degenerations", 0)>>
  \o (IF log5 THEN <<Entry(5, "Removed non-manifolds", 0)>> ELSE <<>>)
  \o <<Entry(6, "Filled holes", 0)>>
  \o <<Entry(7, "Harmonized normals", 0)>>

\* C1: when the process has ended, whatever the argument list and whatever
\* the kernel did, the real standard output holds exactly one JSON object
\* and nothing else.
C1_ExactlyOneJsonOnStdout ==
  pc = "exited" => (Len(realOut) = 1 /\ realOut[1].kind = "json")

\* C2: on every exit path the process exit status is 0.
C2_ExitStatusZero ==
  pc = "exited" => exitStatus = 0

\* C3: if the input path does not exist when convert starts, the process ends
\* at once with one record that has success=false, error="Input file not
\* found" and no mesh_info_before, and no later stage (load, repair,
\* reconstruction, export) is executed.
C3_InputNotFound ==
  (~inputExists /\ executed # <<>>) =>
     /\ pc = "exited"
     /\ exitStatus = 0
     /\ executed = <<"convert">>
     /\ OneRecord
     /\ Emitted.success = FALSE
     /\ Has(Emitted, "error") /\ Emitted.error = "Input file not found"
     /\ ~Has(Emitted, "mesh_info_before")
     /\ mesh = NoMesh /\ shape = NoShape /\ outFile = outPrior

C3_Witness ==
  /\ ~inputExists
  /\ pc = "exited"
  /\ executed = <<"convert">>
  /\ Len(realOut) = 1

\* C4: if the input exists and the loaded mesh has zero facets, the conversion
\* ends with a record that has success=false, error="STL contains no
\* geometry" and stage="read", and nothing after the load is executed.
C4_EmptyMeshRecord ==
  (pc = "exited" /\ ExecutedLast = "read" /\ mesh.loaded /\ mesh.facets = 0) =>
     /\ executed = <<"convert", "read">>
     /\ OneRecord
     /\ Emitted.success = FALSE
     /\ Has(Emitted, "error") /\ Emitted.error = "STL contains no geometry"
     /\ Has(Emitted, "stage") /\ Emitted.stage = "read"

\* C5: if no file exists at the output path after the export call returned,
\* the record has success=false, error="STEP export failed", stage="export"
\* and no output_size.
C5_ExportFailureRecord ==
  (pc = "exited" /\ ExecutedLast = "check" /\ ~outFile.exists) =>
     /\ OneRecord
     /\ Emitted.success = FALSE
     /\ Has(Emitted, "error") /\ Emitted.error = "STEP export failed"
     /\ ~Has(Emitted, "output_size")
     /\ Has(Emitted, "stage") /\ Emitted.stage = "export"

\* C6: with --info, an existing input and a mesh of at least one facet, no
\* repair pass, no reconstruction and no export is performed (the mesh is the
\* one read from the file, the output path is untouched), whatever the repair
\* flag, and the emitted record has success=true and mesh_info_before and none
\* of repairs, mesh_info_after, is_solid, merged_planar_faces, output_size.
C6_InfoOnly ==
  (args.info /\ mesh.loaded /\ mesh.facets > 0) =>
     /\ Range(executed) \cap LaterStages = {}
     /\ mesh = fileMesh
     /\ repairs = <<>> /\ shape = NoShape /\ objShape = NoShape
     /\ outFile = outPrior
     /\ (pc = "exited" /\ exitStatus = 0) => OneRecord
     /\ OneRecord =>
          /\ Emitted.success = TRUE
          /\ Has(Emitted, "mesh_info_before")
          /\ Emitted.mesh_info_before = MeshInfo(fileMesh)
          /\ DOMAIN Emitted \cap {"repairs", "mesh_info_after", "is_solid",
                                   "merged_planar_faces", "output_size", "error"} = {}

C6_Witness ==
  /\ args.info /\ args.repair
  /\ mesh.loaded /\ mesh.facets > 0
  /\ OneRecord
  /\ Emitted.success = TRUE

\* C7: in a full conversion a record with success=true and output_size is
\* emitted only if the export step of this invocation wrote the output file,
\* and output_size is the size of that written file, whatever was at the
\* output path before.
C7_SizeOfWrittenFile ==
  (OneRecord /\ ~args.info /\ Has(Emitted, "output_size") /\ Emitted.success = TRUE) =>
     /\ outFile.fresh
     /\ Emitted.output_size = outFile.size

\* C8 (as stated): when repair_mesh returns, the seven passes ran in the fixed
\* order and the repairs list holds the pass-3 entry iff the mesh reported
\* self-intersections when pass 3 was reached and the pass-5 entry iff it
\* reported non-manifolds when pass 5 was reached.
C8_AsStated ==
  pc = "repaired" =>
     /\ PassesRun = PassOrder
     /\ repairs = ExpectedRepairs(obs.si3, obs.nm5)

\* C8 (amended): when repair_mesh returns, the seven passes ran in the fixed
\* order and the repairs list is, in that order: the pass-1 entry iff points
\* were removed, the pass-2 entry iff facets were removed, the pass-3 entry iff
\* the mesh reported self-intersections when pass 3 was reached and no longer
\* reports them after fixSelfIntersections, the pass-4 entry, the pass-5 entry
\* iff the mesh reported non-manifolds when pass 5 was reached and no longer
\* reports them after removeNonManifolds, the pass-6 entry, the pass-7 entry;
\* while the passes run they are entered in that order, none twice.
C8_RepairLog ==
  /\ Len(PassesRun) <= Len(PassOrder)
  /\ PassesRun = SubSeq(PassOrder, 1, Len(PassesRun))
  /\ pc = "repaired" =>
       /\ PassesRun = PassOrder
       /\ repairs = ExpectedRepairs(obs.si3 /\ ~obs.si3after, obs.nm5 /\ ~obs.nm5after)

C8_Witness ==
  /\ pc = "repaired"
  /\ obs.ptsRemoved > 0
  /\ obs.si3 /\ obs.si3after
  /\ obs.nm5 /\ ~obs.nm5after
  /\ Len(repairs) = 5

\* C9: a makeSolid or removeSplitter failure is never terminal: is_solid and
\* merged_planar_faces record whether the call succeeded, a failed makeSolid
\* carries the reconstructed shape on, a failed removeSplitter leaves the shape
\* that entered the merge step as the one attached and exported, no error
\* field is set by these steps, the step after the merge is the export step,
\* and a record emitted afterwards holds both flags.
C9_SoftFailures ==
  /\ ExecutedLast = "solidify" =>
       /\ pc = "merge"
       /\ Has(result, "is_solid") /\ result.is_solid = ~solidRaised
       /\ solidRaised => final = shape
       /\ ~solidRaised => final = [shape EXCEPT !.solid = TRUE]
       /\ ~Has(result, "error")
  /\ ExecutedLast = "merge" =>
       /\ pc = "addobject"
       /\ Has(result, "is_solid") /\ result.is_solid = ~solidRaised
       /\ Has(result, "merged_planar_faces") /\ result.merged_planar_faces = ~mergeRaised
       /\ mergeRaised => final = mergeIn
       /\ solidRaised => mergeIn = shape
       /\ ~Has(result, "error")
  /\ ("export" \in Range(executed) /\ mergeRaised) => objShape = mergeIn
  /\ (outFile.fresh /\ mergeRaised) => exportedShape = mergeIn
  /\ (OneRecord /\ "merge" \in Range(executed)) =>
       /\ Has(Emitted, "is_solid") /\ Emitted.is_solid = ~solidRaised
       /\ Has(Emitted, "merged_planar_faces")
       /\ Emitted.merged_planar_faces = ~mergeRaised

C9_Witness ==
  /\ solidRaised /\ mergeRaised
  /\ OneRecord
  /\ Has(Emitted, "output_size")
  /\ Emitted.is_solid = FALSE /\ Emitted.merged_planar_faces = FALSE
  /\ exportedShape = shape

\* C10: the guard is engaged during import and every kernel operation; once
\* anything has been handed to the real standard output the streams were
\* restored exactly once before it, and what was handed over is the one JSON
\* record with nothing before or after it.
C10_GuardDiscipline ==
  /\ pc \in KernelPcs => (sysStdout = "fake" /\ sysStderr = "fake")
  /\ sysStdout = "fake" => Written = <<>>
  /\ restores <= 1
  /\ Written # <<>> =>
       /\ restores = 1
       /\ Len(Written) = 1
       /\ Written[1].kind = "json"

====
